---- MODULE Spec2Model ----
(***************************************************************************)
(* Model of the GridGuard dashboard and its data generator.                *)
(*                                                                         *)
(* Spec, FairSpec: the parallel query dispatcher, run_queries_parallel and *)
(* its inner execute_query (src/streamlit/utils/data_loader.py, lines      *)
(* 14-64).  One behaviour is one call of run_queries_parallel(session,     *)
(* queries, max_workers).  The main thread creates the result map and the  *)
(* pool, submits one future per entry of queries, collects the futures as  *)
(* they complete and leaves the with-block; the pool's worker threads take *)
(* the queued work items and run execute_query on them.                    *)
(*                                                                         *)
(* CallsSpec: a page script that calls run_queries_parallel several times. *)
(* RenderSpec: the page scripts that consume a returned map                *)
(* (pages/2_Simulation_Results.py, pages/7_Scenario_Builder.py).           *)
(* GeneratorSpec: utils/generate_synthetic_data.py.                        *)
(* AnimationSpec, FairAnimationSpec: the animation controls of             *)
(* pages/3_Key_Insights.py, lines 242-306.                                 *)
(* ChatSpec: the chat of pages/6_Ask_GridGuard.py and                      *)
(* pages/4_Take_Action.py, one behaviour being the page runs of a session. *)
(* CortexSpec: one call of query_cortex_analyst or query_cortex_agent of   *)
(* streamlit/utils/cortex.py.                                              *)
(***************************************************************************)
EXTENDS Integers, Sequences, FiniteSets, TLC

(* ------------------------------ bounds -------------------------------- *)

\* largest number of entries of the queries mapping
MaxQueries == 3

\* largest max_workers value
MaxWorkers == 2

\* largest number of calls of run_queries_parallel in one behaviour
MaxCalls == 2

\* max_workers: int = 4, the value every page calls with
DefaultMaxWorkers == 4

\* how many of the regions of TEXAS_REGIONS, from the first, are generated
NumRegions == 2

\* largest number of invocations of main() of the generator in one behaviour
MaxRuns == 2

\* largest max_cascade_order
MaxCascade == 3

\* largest number of widget events of the user on a chat page
MaxActs == 3

(* ------------------------------ values -------------------------------- *)

\* names a caller may use as keys of queries
NamePool == <<"a", "b", "c", "d", "e", "f">>

Names == {NamePool[i] : i \in 1..MaxQueries}

\* position of a name in the key order of the queries dict
NameIndex(n) == CHOOSE i \in 1..Len(NamePool) : NamePool[i] = n

\* the query payloads: two that the data source answers, two that it rejects
SQLs == {"SELECT_3_ROWS", "SELECT_0_ROWS", "BAD_SQL", "BAD_SQL_BLANK"}

\* Python values: None, a str, a pandas DataFrame
None == [kind |-> "None"]

Str(s) == [kind |-> "str", s |-> s]

DataFrame(sql, rows) == [kind |-> "df", sql |-> sql, rows |-> rows]

\* truth value of a Python object in `if error:`
Truthy(v) ==
    CASE v.kind = "None" -> FALSE
      [] v.kind = "str"  -> v.s # ""
      [] OTHER           -> TRUE

\* the data source: what session.sql(sql).to_pandas() does for each payload.
\* It returns a DataFrame or raises an Exception whose str() is msg.
Session(sql) ==
    CASE sql = "SELECT_3_ROWS" -> [raised |-> FALSE, df |-> DataFrame(sql, 3)]
      [] sql = "SELECT_0_ROWS" -> [raised |-> FALSE, df |-> DataFrame(sql, 0)]
      [] sql = "BAD_SQL"       -> [raised |-> TRUE, msg |-> "SQL compilation error"]
      [] OTHER                 -> [raised |-> TRUE, msg |-> ""]

(* --------------------------- execute_query ---------------------------- *)

\* what one call of execute_query does: the round trips it makes to the data
\* source, and either the tuple it returns or the exception it lets escape
Returned(name, df, error, trips) ==
    [escaped |-> FALSE, name |-> name, df |-> df, error |-> error, trips |-> trips]

Escaped(msg, trips) ==
    [escaped |-> TRUE, name |-> "", df |-> None, error |-> Str(msg), trips |-> trips]

\* execute_query without its try/except: a failure escapes
ExecuteQuery_NoCatch(name, sql) ==
    LET r == Session(sql) IN
    IF r.raised THEN Escaped(r.msg, <<sql>>)
    ELSE Returned(name, r.df, None, <<sql>>)

\* execute_query that asks the data source again after a failure
ExecuteQuery_Retry(name, sql) ==
    LET r == Session(sql) IN
    IF r.raised THEN Returned(name, None, Str(r.msg), <<sql, sql>>)
    ELSE Returned(name, r.df, None, <<sql>>)

\* execute_query that labels its tuple with the loop's last name instead of
\* its own argument
ExecuteQuery_LateBinding(name, sql) ==
    LET r == Session(sql)
        last == NamePool[MaxQueries] IN
    IF r.raised THEN Returned(last, None, Str(r.msg), <<sql>>)
    ELSE Returned(last, r.df, None, <<sql>>)

\* execute_query as written (lines 40-46)
ExecuteQuery(name, sql) ==
    LET r == Session(sql) IN
    IF r.raised THEN Returned(name, None, Str(r.msg), <<sql>>)
    ELSE Returned(name, r.df, None, <<sql>>)

(* ------------------------------- state -------------------------------- *)

VARIABLES
    queries,        \* argument: the mapping name -> sql
    max_workers,    \* argument
    pc,             \* main thread: "call", "submit", "collect", "unwind", "returned", "raised"
    results,        \* the local results dict
    fut_state,      \* state of the future submitted for each name so far
    fut_result,     \* the value of each future that finished by returning
    fut_exception,  \* the exception of each future that finished by raising
    work_queue,     \* the pool's queue of work items, as names
    workers,        \* one entry per pool thread: the name it is running, or Idle
    idle_semaphore, \* the pool's count of threads that became idle
    yielded,        \* futures as_completed has handed to the loop body
    st_errors,      \* the st.error messages shown, as [name, error] records
    sql_calls,      \* per name, the payloads sent to the data source for it
    result_writes,  \* per key of results, the threads that assigned it, in order
    call_no,        \* which call of run_queries_parallel this is, counted from 1
    results_obj,    \* identity of the dict object that results names
    returned_maps   \* per dict object handed to a caller, its present content

\* a page script that consumes the map (pages/2_Simulation_Results.py,
\* pages/7_Scenario_Builder.py)
VARIABLES
    page,           \* which page script runs
    page_input,     \* what the user set on the page and what the data holds
    page_line,      \* index of the next use of the map in that script
    page_status     \* "running", "rendered" or "aborted"

\* the synthetic-data generator (utils/generate_synthetic_data.py)
VARIABLES
    rng_draws,      \* node-count draws made since random.seed(RANDOM_SEED)
    stream,         \* the outcomes of the draws the seeded generator yields, by position
    outputs         \* the node lists of the invocations of main() so far

\* the animation controls of pages/3_Key_Insights.py
VARIABLES
    max_cascade_order,  \* int(cascade_path['CASCADE_ORDER'].max())
    in_session,         \* 'animation_step' and 'auto_play' are in st.session_state
    animation_step,     \* st.session_state.animation_step
    auto_play,          \* st.session_state.auto_play
    slider_default,     \* value= of the slider widget the browser shows (-1: none yet)
    slider_value,       \* the position of that slider
    toggle_shown,       \* auto_play when the Auto-Play/Stop button was last drawn
    rerun_pending,      \* st.experimental_rerun() was called and the rerun has not run
    last_event,         \* what made the script run the last time it ran
    hands_off           \* the user has stopped interacting with the page

\* the chat of pages/6_Ask_GridGuard.py and pages/4_Take_Action.py
VARIABLES
    chat_page,          \* which of the two pages is open
    chat_mode,          \* st.session_state.chat_mode ('agent' on Take Action)
    chat_history,       \* st.session_state.chat_history / agent_chat_history
    pending_question,   \* st.session_state.pending_question / pending_agent_query
    input_text,         \* the text in the st.text_input
    chat_pc,            \* the script: "idle", at "spinner" entry, in the "backend" call
    user_input,         \* user_input / agent_query of the run in progress
    chat_rerun,         \* st.experimental_rerun() was called and the rerun has not run
    request,            \* the widget event of the user that no run has taken yet
    taken,              \* per run that handled an input, where the input came from
    acts                \* number of widget events so far

\* one call of query_cortex_analyst or query_cortex_agent of utils/cortex.py
VARIABLES
    cx_fn,              \* the function called: "analyst", "agent", or "none"
    cx_question,        \* its argument question, a sequence of characters
    cx_pc,              \* where the call is: "start", "analyst", "final", "done"
    cx_calls,           \* the sub-queries made so far and whether each succeeded
    cx_responses,       \* the local list responses of query_cortex_agent
    cx_result           \* how the call ended: a returned dict, or an exception

dispatchVars == <<queries, max_workers, pc, results, fut_state, fut_result, fut_exception,
                  work_queue, workers, idle_semaphore, yielded, st_errors, sql_calls,
                  result_writes, call_no, results_obj, returned_maps>>

pageVars == <<page, page_input, page_line, page_status>>

generatorVars == <<rng_draws, stream, outputs>>

animationVars == <<max_cascade_order, in_session, animation_step, auto_play,
                   slider_default, slider_value, toggle_shown, rerun_pending,
                   last_event, hands_off>>

chatVars == <<chat_page, chat_mode, chat_history, pending_question, input_text,
              chat_pc, user_input, chat_rerun, request, taken, acts>>

cortexVars == <<cx_fn, cx_question, cx_pc, cx_calls, cx_responses, cx_result>>

vars == <<dispatchVars, pageVars, generatorVars, animationVars, chatVars, cortexVars>>

\* everything run_queries_parallel does not touch
others == <<pageVars, generatorVars, animationVars, chatVars, cortexVars>>

Idle == "-"

Submitted == DOMAIN fut_state

\* the next key the dict comprehension submits
NextName ==
    CHOOSE n \in DOMAIN queries \ Submitted :
        \A m \in DOMAIN queries \ Submitted : NameIndex(n) <= NameIndex(m)

\* number of execute_query calls that are active right now
ActiveCalls == Cardinality({w \in 1..Len(workers) : workers[w] # Idle})

\* the state of a call before its first statement
Fresh ==
    /\ pc = "call"
    /\ results = << >>
    /\ fut_state = << >>
    /\ fut_result = << >>
    /\ fut_exception = << >>
    /\ work_queue = << >>
    /\ workers = << >>
    /\ idle_semaphore = 0
    /\ yielded = {}
    /\ st_errors = << >>
    /\ sql_calls = [n \in Names |-> << >>]
    /\ result_writes = [n \in Names |-> << >>]
    /\ call_no = 1
    /\ results_obj = 0
    /\ returned_maps = << >>

\* no page script is consuming a map
NoPage ==
    /\ page = "none"
    /\ page_input = [view_mode |-> FALSE, run_analysis |-> FALSE, found |-> FALSE]
    /\ page_line = 1
    /\ page_status = "rendered"

\* the generator has not been started
NoGenerator ==
    /\ rng_draws = 0
    /\ stream = << >>
    /\ outputs = << >>

\* the Key Insights page has not been opened
NoAnimation ==
    /\ max_cascade_order = 1
    /\ in_session = FALSE
    /\ animation_step = 0
    /\ auto_play = FALSE
    /\ slider_default = -1
    /\ slider_value = 0
    /\ toggle_shown = FALSE
    /\ rerun_pending = FALSE
    /\ last_event = [kind |-> "none", v |-> 0]
    /\ hands_off = FALSE

\* no chat page has been opened
NoChat ==
    /\ chat_page = "none"
    /\ chat_mode = "agent"
    /\ chat_history = << >>
    /\ pending_question = None
    /\ input_text = Str("")
    /\ chat_pc = "idle"
    /\ user_input = None
    /\ chat_rerun = FALSE
    /\ request = [kind |-> "none", arg |-> ""]
    /\ taken = << >>
    /\ acts = 0

\* no call of utils/cortex.py is in progress
NoCortex ==
    /\ cx_fn = "none"
    /\ cx_question = << >>
    /\ cx_pc = "done"
    /\ cx_calls = << >>
    /\ cx_responses = << >>
    /\ cx_result = None

Init ==
    /\ queries \in UNION {[S -> SQLs] : S \in SUBSET Names}
    /\ max_workers \in 1..MaxWorkers
    /\ Fresh
    /\ NoPage
    /\ NoGenerator
    /\ NoAnimation
    /\ NoChat
    /\ NoCortex

(* ------------------------- run_queries_parallel ----------------------- *)

\* d[k] = v on a dict
Put(d, k, v) == [x \in DOMAIN d \cup {k} |-> IF x = k THEN v ELSE d[x]]

\* one dict object for all calls
ResultsObject_Shared(n) == 1

\* the dict object that line 38 binds to results: a new one in every call
ResultsObject(n) == n

\* the content of the dict objects a caller holds, after object obj was given
\* the content m: a caller that holds obj sees the change
Aliased(maps, obj, m) ==
    IF obj \in DOMAIN maps THEN [maps EXCEPT ![obj] = m] ELSE maps

\* the write log after thread th assigned the keys ks of results
Written(log, ks, th) ==
    [k \in DOMAIN log |->
        IF \E i \in 1..Len(ks) : ks[i] = k THEN Append(log[k], th) ELSE log[k]]

\* a result map that starts with an entry already in it
InitialResults_Placeholder == [n \in {NamePool[1]} |-> None]

\* results = {}
InitialResults == << >>

\* a pool that adds a thread for every submission
SpawnAllowed_Unbounded(num_threads, k) == TRUE

\* a pool that stops one thread short of max_workers
SpawnAllowed_OffByOne(num_threads, k) == num_threads < k - 1

\* ThreadPoolExecutor(max_workers=max_workers): on a submission the pool adds
\* a thread while fewer than max_workers exist
SpawnAllowed(num_threads, k) == num_threads < k

\* a loop body that reports a failed query but stores nothing for it
LoopBody_SkipFailed(res, errs, t) ==
    IF Truthy(t.error)
    THEN [results |-> res,
          st_errors |-> Append(errs, [name |-> t.name, error |-> t.error.s]),
          written |-> << >>]
    ELSE [results |-> Put(res, t.name, t.df), st_errors |-> errs,
          written |-> <<t.name>>]

\* a loop body in which a failure overwrites the entries collected so far
LoopBody_FailFast(res, errs, t) ==
    IF Truthy(t.error)
    THEN [results |-> [x \in DOMAIN res \cup {t.name} |-> None],
          st_errors |-> Append(errs, [name |-> t.name, error |-> t.error.s]),
          written |-> <<t.name>>]
    ELSE [results |-> Put(res, t.name, t.df), st_errors |-> errs,
          written |-> <<t.name>>]

\* a loop body that stores the error description of a failed query
LoopBody_StoresError(res, errs, t) ==
    IF Truthy(t.error)
    THEN [results |-> Put(res, t.name, t.error),
          st_errors |-> Append(errs, [name |-> t.name, error |-> t.error.s]),
          written |-> <<t.name>>]
    ELSE [results |-> Put(res, t.name, t.df), st_errors |-> errs,
          written |-> <<t.name>>]

\* lines 57-62: the body of the for-loop over as_completed(futures), applied
\* to the tuple t that future.result() returned
LoopBody(res, errs, t) ==
    IF Truthy(t.error)
    THEN [results |-> Put(res, t.name, None),
          st_errors |-> Append(errs, [name |-> t.name, error |-> t.error.s]),
          written |-> <<t.name>>]
    ELSE [results |-> Put(res, t.name, t.df), st_errors |-> errs,
          written |-> <<t.name>>]

\* shutdown(wait=True) of the with-block has joined every pool thread
ThreadsJoined ==
    /\ work_queue = << >>
    /\ \A w \in 1..Len(workers) : workers[w] = Idle

\* leaving without waiting for the futures or the pool
ReturnReady_NoWait == TRUE

\* the main thread may leave the with-block: the loop over as_completed has
\* ended (or future.result() raised) and the pool is shut down
ReturnReady ==
    /\ pc = "collect" => yielded = Submitted
    /\ ThreadsJoined

\* lines 38 and 48: results = {} and the pool is constructed
Call ==
    /\ pc = "call"
    /\ results' = InitialResults
    /\ results_obj' = ResultsObject(call_no)
    /\ returned_maps' = Aliased(returned_maps, ResultsObject(call_no), InitialResults)
    /\ pc' = IF max_workers >= 1 THEN "submit" ELSE "raised"
    /\ UNCHANGED <<queries, max_workers, fut_state, fut_result, fut_exception,
                   work_queue, workers, idle_semaphore, yielded, st_errors, sql_calls,
                   result_writes, call_no, others>>

\* lines 50-53: one executor.submit(execute_query, name, sql)
Submit ==
    /\ pc = "submit"
    /\ DOMAIN queries \ Submitted # {}
    /\ LET n == NextName IN
        /\ fut_state' = Put(fut_state, n, "PENDING")
        /\ work_queue' = Append(work_queue, n)
    /\ IF idle_semaphore > 0
       THEN /\ idle_semaphore' = idle_semaphore - 1
            /\ workers' = workers
       ELSE /\ idle_semaphore' = idle_semaphore
            /\ workers' = IF SpawnAllowed(Len(workers), max_workers)
                          THEN Append(workers, Idle)
                          ELSE workers
    /\ UNCHANGED <<queries, max_workers, pc, results, fut_result, fut_exception,
                   yielded, st_errors, sql_calls,
                   result_writes, call_no, results_obj, returned_maps, others>>

\* line 53: the dict comprehension is exhausted
SubmitDone ==
    /\ pc = "submit"
    /\ DOMAIN queries \ Submitted = {}
    /\ pc' = "collect"
    /\ UNCHANGED <<queries, max_workers, results, fut_state, fut_result, fut_exception,
                   work_queue, workers, idle_semaphore, yielded, st_errors, sql_calls,
                   result_writes, call_no, results_obj, returned_maps, others>>

\* a pool thread takes the oldest work item and enters execute_query
WorkerGet(w) ==
    /\ w \in 1..Len(workers)
    /\ workers[w] = Idle
    /\ work_queue # << >>
    /\ LET n == Head(work_queue) IN
        /\ workers' = [workers EXCEPT ![w] = n]
        /\ fut_state' = [fut_state EXCEPT ![n] = "RUNNING"]
    /\ work_queue' = Tail(work_queue)
    /\ UNCHANGED <<queries, max_workers, pc, results, fut_result, fut_exception,
                   idle_semaphore, yielded, st_errors, sql_calls,
                   result_writes, call_no, results_obj, returned_maps, others>>

\* lines 40-46: the data source answers and execute_query ends; the pool
\* stores its return value (or the exception it let escape) in the future
WorkerRun(w) ==
    /\ w \in 1..Len(workers)
    /\ workers[w] # Idle
    /\ LET n == workers[w]
           r == ExecuteQuery(n, queries[n]) IN
        /\ sql_calls' = [sql_calls EXCEPT ![n] = @ \o r.trips]
        /\ IF r.escaped
           THEN /\ fut_exception' = Put(fut_exception, n, r.error)
                /\ fut_result' = fut_result
           ELSE /\ fut_result' = Put(fut_result, n,
                                     [name |-> r.name, df |-> r.df, error |-> r.error])
                /\ fut_exception' = fut_exception
        /\ fut_state' = [fut_state EXCEPT ![n] = "FINISHED"]
    /\ workers' = [workers EXCEPT ![w] = Idle]
    /\ idle_semaphore' = idle_semaphore + 1
    /\ UNCHANGED <<queries, max_workers, pc, results, work_queue, yielded, st_errors,
                   result_writes, call_no, results_obj, returned_maps, others>>

\* lines 56-62: as_completed yields a finished future and the loop body runs
Collect ==
    /\ pc = "collect"
    /\ \E n \in Submitted \ yielded :
        /\ fut_state[n] = "FINISHED"
        /\ yielded' = yielded \cup {n}
        /\ IF n \in DOMAIN fut_exception
           THEN /\ pc' = "unwind"
                /\ UNCHANGED <<results, st_errors, result_writes, returned_maps>>
           ELSE LET b == LoopBody(results, st_errors, fut_result[n]) IN
                /\ results' = b.results
                /\ st_errors' = b.st_errors
                /\ result_writes' = Written(result_writes, b.written, "main")
                /\ returned_maps' = Aliased(returned_maps, results_obj, b.results)
                /\ pc' = pc
    /\ UNCHANGED <<queries, max_workers, fut_state, fut_result, fut_exception,
                   work_queue, workers, idle_semaphore, sql_calls,
                   call_no, results_obj, others>>

\* lines 56, 48 and 64: the loop ends, the with-block shuts the pool down,
\* and the call returns results (or the exception of future.result() escapes)
Return ==
    /\ pc \in {"collect", "unwind"}
    /\ ReturnReady
    /\ pc' = IF pc = "unwind" THEN "raised" ELSE "returned"
    /\ returned_maps' = IF pc = "unwind" THEN returned_maps
                        ELSE Put(returned_maps, results_obj, results)
    /\ UNCHANGED <<queries, max_workers, results, fut_state, fut_result, fut_exception,
                   work_queue, workers, idle_semaphore, yielded, st_errors, sql_calls,
                   result_writes, call_no, results_obj, others>>

Next ==
    \/ Call
    \/ Submit
    \/ SubmitDone
    \/ Collect
    \/ Return
    \/ \E w \in 1..Len(workers) : WorkerGet(w)
    \/ \E w \in 1..Len(workers) : WorkerRun(w)

Spec == Init /\ [][Next]_vars

\* the threads are scheduled by the operating system and every data-source
\* call terminates: while some thread can take a step, a step is taken
FairSpec == Spec /\ WF_vars(Next)

\* the calls a page makes: a mapping of up to two queries and the default
\* max_workers (pages/3_Key_Insights.py calls at lines 112 and 237)
PageNames == {NamePool[1], NamePool[2]}

PageCall(q, k) ==
    /\ q \in UNION {[S -> SQLs] : S \in SUBSET PageNames}
    /\ k = DefaultMaxWorkers

\* the caller keeps the returned map and calls run_queries_parallel again:
\* a new frame, in which results is not bound yet, and later a new pool
CallAgain ==
    /\ pc = "returned"
    /\ call_no < MaxCalls
    /\ \E q \in UNION {[S -> SQLs] : S \in SUBSET PageNames} :
        /\ PageCall(q, DefaultMaxWorkers)
        /\ queries' = q
    /\ max_workers' = DefaultMaxWorkers
    /\ call_no' = call_no + 1
    /\ pc' = "call"
    /\ results' = << >>
    /\ results_obj' = 0
    /\ fut_state' = << >>
    /\ fut_result' = << >>
    /\ fut_exception' = << >>
    /\ work_queue' = << >>
    /\ workers' = << >>
    /\ idle_semaphore' = 0
    /\ yielded' = {}
    /\ st_errors' = << >>
    /\ sql_calls' = [n \in Names |-> << >>]
    /\ result_writes' = [n \in Names |-> << >>]
    /\ UNCHANGED <<returned_maps, others>>

CallsInit ==
    /\ PageCall(queries, max_workers)
    /\ Fresh
    /\ NoPage
    /\ NoGenerator
    /\ NoAnimation
    /\ NoChat
    /\ NoCortex

CallsNext == Next \/ CallAgain

\* a page that calls run_queries_parallel up to MaxCalls times
CallsSpec == CallsInit /\ [][CallsNext]_vars

(* ------------------------------ properties ---------------------------- *)

\* the queries whose payload the data source rejects
Failing == {n \in DOMAIN queries : Session(queries[n]).raised}

Succeeding == DOMAIN queries \ Failing

\* state of the future of name n; "NONE" before it is submitted
FutState(n) == IF n \in Submitted THEN fut_state[n] ELSE "NONE"

\* names for which an st.error was shown
ErrorShownFor == {st_errors[i].name : i \in 1..Len(st_errors)}

\* C1: for a non-empty queries mapping and every max_workers >= 1, the map
\* that run_queries_parallel returns has exactly the names of queries as its
\* keys, whichever queries fail.
C1_KeySetComplete ==
    (pc = "returned" /\ DOMAIN queries # {}) => DOMAIN results = DOMAIN queries

C1_Witness ==
    /\ pc = "returned"
    /\ Failing # {}
    /\ Succeeding # {}
    /\ DOMAIN results = DOMAIN queries

\* C2: when run_queries_parallel returns, every query of the batch has been
\* submitted and its future is finished; none is queued or in flight.
C2_ReturnsAfterAllTerminal ==
    pc = "returned" =>
        /\ \A n \in DOMAIN queries : n \in Submitted /\ fut_state[n] = "FINISHED"
        /\ work_queue = << >>
        /\ ActiveCalls = 0

C2_Witness ==
    /\ pc = "returned"
    /\ Cardinality(DOMAIN queries) > max_workers
    /\ \A n \in DOMAIN queries : fut_state[n] = "FINISHED"

\* C3: in a batch of two or more queries of which exactly one fails, the call
\* ends by returning, every other query was sent to the data source, and its
\* entry in the returned map is the DataFrame of its own payload.
C3_FailureIsolated ==
    (/\ pc \in {"returned", "raised"}
     /\ Cardinality(DOMAIN queries) >= 2
     /\ Cardinality(Failing) = 1) =>
        /\ pc = "returned"
        /\ \A n \in Succeeding :
            /\ sql_calls[n] = <<queries[n]>>
            /\ n \in DOMAIN results
            /\ results[n] = Session(queries[n]).df

C3_Witness ==
    /\ pc = "returned"
    /\ Cardinality(DOMAIN queries) = MaxQueries
    /\ Cardinality(Failing) = 1
    /\ \A n \in Succeeding : results[n] = Session(queries[n]).df

\* C4: the number of execute_query calls active at the same time never
\* exceeds max_workers (and the pool never has more threads than that).
C4_ConcurrencyBound ==
    /\ ActiveCalls <= max_workers
    /\ Len(workers) <= max_workers

C4_Witness ==
    /\ Cardinality(DOMAIN queries) > max_workers
    /\ ActiveCalls = max_workers
    /\ work_queue # << >>

\* C5: at return, every query whose execution raised has an st.error naming
\* it and the failure marker None under its name.
C5_EveryFailureSurfaced ==
    pc = "returned" =>
        \A n \in Failing :
            /\ n \in ErrorShownFor
            /\ n \in DOMAIN results
            /\ results[n] = None

\* C6: no future finishes with an exception; a failure of the data source
\* becomes the returned tuple (name, None, str(e)).
C6_ExecutorNeverRaises ==
    /\ fut_exception = << >>
    /\ pc \notin {"unwind", "raised"}
    /\ \A n \in Submitted :
        fut_state[n] = "FINISHED" =>
            /\ n \in DOMAIN fut_result
            /\ Session(queries[n]).raised =>
                fut_result[n] = [name |-> n, df |-> None,
                                 error |-> Str(Session(queries[n]).msg)]

C6_Witness ==
    \E n \in Failing :
        /\ n \in Submitted
        /\ fut_state[n] = "FINISHED"
        /\ n \in DOMAIN fut_result

\* what the data source produced for the query submitted under name n, as the
\* map stores it: its DataFrame, or None when it failed
OutcomeOf(n) ==
    IF Session(queries[n]).raised THEN None ELSE Session(queries[n]).df

\* C7: the tuple of the future submitted for a name carries that name, and
\* the value stored under a name is the outcome of the query submitted under
\* that name.
C7_NoCrossWiring ==
    /\ \A n \in DOMAIN fut_result : fut_result[n].name = n
    /\ \A n \in DOMAIN results : n \in DOMAIN queries /\ results[n] = OutcomeOf(n)

C7_Witness ==
    /\ pc = "returned"
    /\ \E m, n \in DOMAIN queries : m # n /\ OutcomeOf(m) # OutcomeOf(n)
    /\ \A n \in DOMAIN queries : results[n] = OutcomeOf(n)

\* C8: with an empty queries mapping the call returns the empty map and the
\* data source is never called: nothing is submitted and no thread exists.
C8_EmptyBatch ==
    (queries = << >> /\ pc # "call") =>
        /\ results = << >>
        /\ Submitted = {}
        /\ workers = << >>
        /\ \A n \in Names : sql_calls[n] = << >>
        /\ pc \in {"submit", "collect", "returned"}

C8_Witness ==
    /\ queries = << >>
    /\ pc = "returned"
    /\ results = << >>
    /\ max_workers = MaxWorkers

\* C9: a query is sent to the data source at most once, only its own payload
\* is sent, and at return every query of the batch was sent exactly once.
C9_ExactlyOneRoundTrip ==
    /\ \A n \in Names :
        /\ Len(sql_calls[n]) <= 1
        /\ n \notin DOMAIN queries => sql_calls[n] = << >>
        /\ (n \in Submitted /\ fut_state[n] = "PENDING") => sql_calls[n] = << >>
    /\ \A n \in DOMAIN queries :
        (pc = "returned" \/ (n \in Submitted /\ fut_state[n] = "FINISHED"))
            => sql_calls[n] = <<queries[n]>>

C9_Witness ==
    /\ pc = "returned"
    /\ Failing # {}
    /\ \A n \in DOMAIN queries : sql_calls[n] = <<queries[n]>>

\* C10: the call eventually returns, and by then every query of the batch,
\* those that had to wait for a free worker included, was started, sent to
\* the data source and finished.
C10_EventuallyReturns ==
    <>(/\ pc = "returned"
       /\ \A n \in DOMAIN queries :
            /\ FutState(n) = "FINISHED"
            /\ sql_calls[n] # << >>)

C10_Witness ==
    /\ pc = "returned"
    /\ Cardinality(DOMAIN queries) > max_workers
    /\ \A n \in DOMAIN queries : sql_calls[n] # << >>

IsScenario ==
    /\ DOMAIN queries = {"a", "b"}
    /\ queries["a"] = "BAD_SQL"
    /\ queries["b"] = "SELECT_3_ROWS"
    /\ max_workers = DefaultMaxWorkers

\* v is an outcome that carries a non-empty error description
CarriesDescription(v) == v.kind = "str" /\ v.s # ""

\* C12 as stated: in the scenario the map holds under "a" an outcome carrying
\* a non-empty error description and under "b" the result with 3 rows.
C12_FailureEntryCarriesDescription ==
    (pc = "returned" /\ IsScenario) =>
        /\ CarriesDescription(results["a"])
        /\ results["b"].rows = 3

\* C12 as amended: in the scenario the map holds None under "a", the
\* non-empty description being shown by st.error for "a", and under "b" the
\* DataFrame with 3 rows; in general a successful query's entry is the
\* DataFrame the data source returned, unchanged, and a failed query's entry
\* is None, its description, when not empty, going to st.error.
C12_FailureEntryIsNone ==
    pc = "returned" =>
        /\ IsScenario =>
            /\ results["a"] = None
            /\ \E i \in 1..Len(st_errors) :
                st_errors[i] = [name |-> "a", error |-> "SQL compilation error"]
            /\ results["b"] = DataFrame("SELECT_3_ROWS", 3)
        /\ \A n \in DOMAIN queries :
            /\ n \in DOMAIN results
            /\ LET r == Session(queries[n]) IN
               IF r.raised
               THEN /\ results[n] = None
                    /\ r.msg # "" =>
                        \E i \in 1..Len(st_errors) :
                            st_errors[i] = [name |-> n, error |-> r.msg]
               ELSE results[n] = r.df

C12_Witness ==
    /\ pc = "returned"
    /\ IsScenario
    /\ results["a"] = None
    /\ results["b"].rows = 3

\* C13: every key of the result map is assigned exactly once, by the main
\* thread; no key is assigned for another request and no pool thread assigns
\* any.
C13_SlotsWrittenOnce ==
    \A k \in Names :
        /\ Len(result_writes[k]) <= 1
        /\ \A i \in 1..Len(result_writes[k]) : result_writes[k][i] = "main"
        /\ result_writes[k] # << >> <=> k \in DOMAIN results
        /\ result_writes[k] # << >> => (k \in yielded /\ FutState(k) = "FINISHED")
        /\ (pc = "returned" /\ k \in DOMAIN queries) => Len(result_writes[k]) = 1

C13_Witness ==
    /\ pc = "returned"
    /\ Cardinality(DOMAIN queries) = MaxQueries
    /\ \A k \in DOMAIN queries : result_writes[k] = <<"main">>

\* the map a sequential run of the queries would build
SequentialMap == [n \in DOMAIN queries |-> OutcomeOf(n)]

\* C14: the returned map is a function of the queries alone: whatever the
\* schedule, the completion order and max_workers, it is the map a
\* sequential run would build.
C14_ScheduleIndependent ==
    pc = "returned" => results = SequentialMap

C14_Witness ==
    /\ pc = "returned"
    /\ Cardinality(DOMAIN queries) = MaxQueries
    /\ max_workers = MaxWorkers
    /\ Failing # {}
    /\ Succeeding # {}
    /\ \E i \in 1..Len(st_errors) : st_errors[i].name # NamePool[1]
    /\ results = SequentialMap

\* C15: the map a call returns holds exactly the outcomes of that call's
\* queries, whatever an earlier call returned, and a map handed to the caller
\* is never changed afterwards.
C15_CallsIndependent ==
    /\ [](pc = "returned" =>
            /\ results_obj \in DOMAIN returned_maps
            /\ returned_maps[results_obj] = SequentialMap)
    /\ [][\A o \in DOMAIN returned_maps :
            /\ o \in DOMAIN returned_maps'
            /\ returned_maps'[o] = returned_maps[o]]_vars

C15_Witness ==
    /\ pc = "returned"
    /\ call_no = 2
    /\ DOMAIN returned_maps = {1, 2}
    /\ DOMAIN returned_maps[1] = {"a"}
    /\ DOMAIN returned_maps[2] = {"b"}

(* ----------------- page scripts that consume the map ------------------ *)

Pages == {"2_Simulation_Results", "7_Scenario_Builder"}

\* the keys of the queries dict of each page, in dict order
\* (2_Simulation_Results.py lines 76-87, 7_Scenario_Builder.py lines 94-109)
PageKeys(p) ==
    IF p = "2_Simulation_Results"
    THEN <<"nodes", "edges", "simulation", "impact">>
    ELSE <<"nodes", "edges", "scenarios", "base_results">>

\* the st.error messages of a returned call, here in dict order
ErrorsOf(q, order) ==
    LET Shown(k) == Session(q[k]).raised /\ Truthy(Str(Session(q[k]).msg))
        ks == SelectSeq(order, Shown)
    IN [i \in 1..Len(ks) |-> [name |-> ks[i], error |-> Session(q[ks[i]]).msg]]

\* data.get(key, pd.DataFrame()): the default is used only for a missing key
Get(d, k) == IF k \in DOMAIN d THEN d[k] ELSE DataFrame("", 0)

\* `df is not None and len(df) > 0`
NonEmpty(v) == v # None /\ v.rows > 0

\* one place of a script where a local DataFrame variable is used: its line,
\* the variable, whether the use is preceded by an `is not None` test (raw =
\* FALSE) or subscripts / measures the value directly (raw = TRUE), the
\* variables that enclosing if-statements require to be non-empty, the
\* branch of the script it is in, and whether an enclosing if-statement
\* depends on the rows of the data (a Patient Zero row, cascade data, a
\* selected node)
Use(line, df, raw, needs, branch, found) ==
    [line |-> line, df |-> df, raw |-> raw, needs |-> needs, branch |-> branch,
     found |-> found]

\* pages/2_Simulation_Results.py, lines 90-349
Script_Simulation_Results ==
    << Use(109, "impact", FALSE, {}, "executive", FALSE),
       Use(144, "simulation", FALSE, {}, "executive", FALSE),
       Use(148, "nodes", TRUE, {"simulation"}, "executive", TRUE),
       Use(152, "impact", FALSE, {"simulation"}, "executive", TRUE),
       Use(171, "simulation", FALSE, {}, "executive", FALSE),
       Use(173, "nodes", TRUE, {"simulation"}, "executive", FALSE),
       Use(198, "impact", FALSE, {}, "technical", FALSE),
       Use(207, "nodes", TRUE, {"impact"}, "technical", FALSE),
       Use(238, "nodes", FALSE, {}, "technical", FALSE),
       Use(238, "edges", FALSE, {}, "technical", FALSE),
       Use(238, "simulation", FALSE, {}, "technical", FALSE),
       Use(278, "simulation", FALSE, {}, "technical", FALSE),
       Use(282, "nodes", TRUE, {"simulation"}, "technical", TRUE),
       Use(301, "simulation", FALSE, {}, "technical", FALSE),
       Use(311, "nodes", TRUE, {"simulation"}, "technical", TRUE),
       Use(337, "simulation", FALSE, {}, "technical", FALSE),
       Use(340, "nodes", TRUE, {"simulation"}, "technical", FALSE) >>

\* pages/7_Scenario_Builder.py, lines 112-398
Script_Scenario_Builder ==
    << Use(179, "nodes", TRUE, {}, "always", FALSE),
       Use(201, "nodes", TRUE, {}, "always", FALSE),
       Use(242, "base_results", FALSE, {}, "analysis", FALSE),
       Use(253, "nodes", TRUE, {"base_results", "nodes"}, "analysis", TRUE),
       Use(266, "nodes", TRUE, {"base_results"}, "analysis", FALSE),
       Use(327, "nodes", TRUE, {"base_results"}, "analysis", FALSE),
       Use(328, "edges", TRUE, {"base_results"}, "analysis", FALSE),
       Use(376, "nodes", TRUE, {"base_results"}, "analysis", FALSE),
       Use(396, "scenarios", FALSE, {"base_results"}, "analysis", FALSE) >>

Script(p) ==
    IF p = "2_Simulation_Results" THEN Script_Simulation_Results
    ELSE Script_Scenario_Builder

\* the if-statements around a use let the script reach it
Reached(u, data, input) ==
    /\ CASE u.branch = "executive" -> input.view_mode
         [] u.branch = "technical" -> ~input.view_mode
         [] u.branch = "analysis"  -> input.run_analysis
         [] OTHER                  -> TRUE
    /\ \A d \in u.needs : NonEmpty(Get(data, d))
    /\ u.found => input.found

\* len(None), None[...] and None.iterrows() raise; with no try around them
\* the exception ends the script run
Raises(u, data) == u.raw /\ Get(data, u.df) = None

\* the script runs up to and including its next use of the map
PageStep ==
    /\ page_status = "running"
    /\ page_line \in 1..Len(Script(page))
    /\ LET u == Script(page)[page_line] IN
       IF Reached(u, results, page_input) /\ Raises(u, results)
       THEN /\ page_status' = "aborted"
            /\ page_line' = page_line
       ELSE /\ page_line' = page_line + 1
            /\ page_status' = IF page_line = Len(Script(page)) THEN "rendered"
                              ELSE "running"
    /\ UNCHANGED <<page, page_input, dispatchVars, generatorVars, animationVars, chatVars, cortexVars>>

\* a page script just after its call of run_queries_parallel returned: the
\* call's frame and pool are gone, the map and the messages remain
RenderInit ==
    /\ page \in Pages
    /\ page_input \in [view_mode : BOOLEAN, run_analysis : BOOLEAN, found : BOOLEAN]
    /\ page_line = 1
    /\ page_status = "running"
    /\ queries \in [{PageKeys(page)[i] : i \in 1..Len(PageKeys(page))} -> SQLs]
    /\ max_workers = DefaultMaxWorkers
    /\ pc = "returned"
    /\ results = SequentialMap
    /\ st_errors = ErrorsOf(queries, PageKeys(page))
    /\ fut_state = << >>
    /\ fut_result = << >>
    /\ fut_exception = << >>
    /\ work_queue = << >>
    /\ workers = << >>
    /\ idle_semaphore = 0
    /\ yielded = {}
    /\ sql_calls = [n \in Names |-> << >>]
    /\ result_writes = [n \in Names |-> << >>]
    /\ call_no = 1
    /\ results_obj = 1
    /\ returned_maps = Put(<< >>, 1, results)
    /\ NoGenerator
    /\ NoAnimation
    /\ NoChat
    /\ NoCortex

RenderNext == PageStep

RenderSpec == RenderInit /\ [][RenderNext]_vars

\* the entries of the map that are the failure marker
FailedEntries == {k \in DOMAIN results : results[k] = None}

\* C16: when exactly one query of a page's batch failed, the page run is not
\* aborted: every use of that entry tells None from data first and the page
\* renders to its end.
C16_OneFailureNeverAborts ==
    (page # "none" /\ Cardinality(FailedEntries) = 1) => page_status # "aborted"

(* ------------------- utils/generate_synthetic_data.py ----------------- *)

\* the regions, in dict order, with region_key[:3]
TEXAS_REGIONS ==
    << [key |-> "PERMIAN_BASIN", key3 |-> "PER", name |-> "Permian Basin"],
       [key |-> "GULF_COAST", key3 |-> "GUL", name |-> "Gulf Coast"],
       [key |-> "PANHANDLE", key3 |-> "PAN", name |-> "Panhandle"],
       [key |-> "NORTH_CENTRAL", key3 |-> "NOR", name |-> "North Central"],
       [key |-> "SOUTH_CENTRAL", key3 |-> "SOU", name |-> "South Central"],
       [key |-> "EAST_TEXAS", key3 |-> "EAS", name |-> "East Texas"],
       [key |-> "WEST_TEXAS", key3 |-> "WES", name |-> "West Texas"] >>

\* a node id "SUB_<part>_<nn>" and a node name "<region> <type> #<n>", kept
\* as their parts
IdStr(part, nn) == [part |-> part, nn |-> nn]

NameStr(region, type, n) == [region |-> region, type |-> type, n |-> n]

PATIENT_ZERO_NODE_ID == IdStr("PERMIAN", 7)

PATIENT_ZERO_NAME == NameStr("Permian Basin", "Substation", 7)

\* the outcomes of random.randint(6, 8)
NodeCounts == 6..8

\* random.seed(42) makes the first random.randint(6, 8) of a process return 8
SeededPrefix == <<8>>

\* node_type of the i-th node of a region, and node_type.replace('_', ' ').title()
NodeType(i) ==
    IF i = 0 THEN "TRANSMISSION_HUB"
    ELSE IF i = 1 THEN "GENERATOR"
    ELSE IF i < 4 THEN "SUBSTATION"
    ELSE "LOAD_CENTER"

Title(t) ==
    CASE t = "TRANSMISSION_HUB" -> "Transmission Hub"
      [] t = "GENERATOR"        -> "Generator"
      [] t = "SUBSTATION"       -> "Substation"
      [] OTHER                  -> "Load Center"

\* the node appended for index i of region r when the counter is node_id
Node(r, i, node_id) ==
    IF TEXAS_REGIONS[r].key = "PERMIAN_BASIN" /\ i = 6
    THEN [NODE_ID |-> PATIENT_ZERO_NODE_ID, NODE_NAME |-> PATIENT_ZERO_NAME,
          REGION |-> TEXAS_REGIONS[r].name]
    ELSE [NODE_ID |-> IdStr(TEXAS_REGIONS[r].key3, node_id),
          NODE_NAME |-> NameStr(TEXAS_REGIONS[r].name, Title(NodeType(i)), i + 1),
          REGION |-> TEXAS_REGIONS[r].name]

\* number of nodes appended before region r
RECURSIVE Offset(_, _)
Offset(counts, r) == IF r <= 1 THEN 0 ELSE counts[r - 1] + Offset(counts, r - 1)

\* generate_grid_nodes when the successive random.randint(6, 8) return counts
generate_grid_nodes(counts) ==
    LET total == Offset(counts, Len(counts) + 1)
        RegionOf(k) == CHOOSE r \in 1..Len(counts) :
                          Offset(counts, r) < k /\ k <= Offset(counts, r) + counts[r]
    IN [k \in 1..total |-> Node(RegionOf(k), k - Offset(counts, RegionOf(k)) - 1, k)]

\* the head of cascade_sequence in generate_historical_telemetry: Patient
\* Zero, then the other Permian Basin nodes (the nodes of the other regions,
\* each kept with probability 0.3, follow them)
cascade_sequence(nodes) ==
    LET Permian(n) == n.NODE_ID # PATIENT_ZERO_NODE_ID /\ n.REGION = "Permian Basin"
        rest == SelectSeq(nodes, Permian)
        all == <<PATIENT_ZERO_NODE_ID>> \o [i \in 1..Len(rest) |-> rest[i].NODE_ID]
    IN SubSeq(all, 1, IF Len(all) < 15 THEN Len(all) ELSE 15)

\* main(): generate_grid_nodes draws one node count per region from the
\* module's generator, which main() does not seed again
main ==
    /\ Len(outputs) < MaxRuns
    /\ LET counts == [r \in 1..NumRegions |-> stream[rng_draws + r]]
           nodes == generate_grid_nodes(counts)
       IN outputs' = Append(outputs, [first_draw |-> rng_draws + 1,
                                      nodes |-> nodes,
                                      cascade_sequence |-> cascade_sequence(nodes)])
    /\ rng_draws' = rng_draws + NumRegions
    /\ UNCHANGED <<stream, dispatchVars, pageVars, animationVars, chatVars, cortexVars>>

\* the script is started again: the import runs random.seed(RANDOM_SEED)
NewProcess ==
    /\ rng_draws > 0
    /\ Len(outputs) < MaxRuns
    /\ rng_draws' = 0
    /\ UNCHANGED <<stream, outputs, dispatchVars, pageVars, animationVars, chatVars, cortexVars>>

\* no call of run_queries_parallel is in progress
NoCall ==
    /\ queries = << >>
    /\ max_workers = DefaultMaxWorkers
    /\ Fresh

\* the module was imported: the generator is seeded.  stream is the sequence
\* of node counts the seeded generator yields, fixed by the seed
GeneratorInit ==
    /\ rng_draws = 0
    /\ stream \in [1..(NumRegions * MaxRuns) -> NodeCounts]
    /\ SubSeq(stream, 1, Len(SeededPrefix)) = SeededPrefix
    /\ outputs = << >>
    /\ NoCall
    /\ NoPage
    /\ NoAnimation
    /\ NoChat
    /\ NoCortex

GeneratorNext == main \/ NewProcess

GeneratorSpec == GeneratorInit /\ [][GeneratorNext]_vars

\* C17: every invocation of main() writes the same grid, a second invocation
\* in the same process included.
C17_EveryRunSameOutput ==
    \A i, j \in 1..Len(outputs) : outputs[i].nodes = outputs[j].nodes

\* the nodes of a grid that are Patient Zero
PatientZeroNodes(nodes) ==
    {k \in 1..Len(nodes) : /\ nodes[k].NODE_ID = PATIENT_ZERO_NODE_ID
                           /\ nodes[k].NODE_NAME = PATIENT_ZERO_NAME}

\* C18: every generated grid holds exactly one Patient Zero node, and every
\* id of the cascade sequence is the id of a generated node.
C18_PatientZeroAlwaysGenerated ==
    \A i \in 1..Len(outputs) :
        /\ Cardinality(PatientZeroNodes(outputs[i].nodes)) = 1
        /\ \A c \in 1..Len(outputs[i].cascade_sequence) :
            \E k \in 1..Len(outputs[i].nodes) :
                outputs[i].nodes[k].NODE_ID = outputs[i].cascade_sequence[c]

(* ------------- pages/3_Key_Insights.py: animation controls ------------ *)

\* what makes the script run: a rerun or first load ("none"), or the user
\* moving the slider to v or pressing one of the three buttons
Event(kind, v) == [kind |-> kind, v |-> v]

UserEvents ==
    {Event("slider", v) : v \in 0..max_cascade_order}
        \cup {Event("step", 0), Event("reset", 0), Event("toggle", 0)}

\* lines 266-268: the slider's value is copied to the session state
SliderSync(step, auto, pos) ==
    IF pos # step THEN [step |-> pos, auto |-> FALSE]
    ELSE [step |-> step, auto |-> auto]

\* a Step button that advances without looking at the end
StepButton_Unguarded(step, max) == [step |-> step + 1, rerun |-> TRUE]

\* lines 276-278: the Step button was pressed
StepButton(step, max) ==
    IF step < max THEN [step |-> step + 1, rerun |-> TRUE]
    ELSE [step |-> step, rerun |-> FALSE]

\* lines 292-296: the Auto-Play / Stop button was pressed
ToggleButton(step, auto, max) ==
    [step |-> IF ~auto /\ step >= max THEN 0 ELSE step, auto |-> ~auto, rerun |-> TRUE]

\* auto-play logic that keeps playing at the end
AutoPlayLogic_NoStop(step, auto, max) ==
    IF auto
    THEN IF step < max THEN [step |-> step + 1, auto |-> auto, rerun |-> TRUE]
         ELSE [step |-> step, auto |-> auto, rerun |-> TRUE]
    ELSE [step |-> step, auto |-> auto, rerun |-> FALSE]

\* lines 299-306: auto-play logic
AutoPlayLogic(step, auto, max) ==
    IF auto
    THEN IF step < max THEN [step |-> step + 1, auto |-> auto, rerun |-> TRUE]
         ELSE [step |-> step, auto |-> FALSE, rerun |-> TRUE]
    ELSE [step |-> step, auto |-> auto, rerun |-> FALSE]

\* one run of the script, lines 251-306, for the event ev.
\* The slider is created with value=st.session_state.animation_step: when
\* that value differs from the one the slider shown in the browser was
\* created with, it is another widget and returns its default; otherwise it
\* returns the position the user left it at.  The Auto-Play / Stop button is
\* another widget for each of its two labels, so a press counts only when
\* the label drawn now is the label that was pressed.
\* st.experimental_rerun() ends the run at once.
RunScript(ev) ==
    LET step0 == IF in_session THEN animation_step ELSE 0
        auto0 == IF in_session THEN auto_play ELSE FALSE
        pos == IF slider_default # step0 THEN step0
               ELSE IF ev.kind = "slider" THEN ev.v
               ELSE slider_value
        sy == SliderSync(step0, auto0, pos)
        sb == StepButton(sy.step, max_cascade_order)
        tb == ToggleButton(sy.step, sy.auto, max_cascade_order)
        ap == AutoPlayLogic(sy.step, sy.auto, max_cascade_order)
        Out(step, auto, rerun, shown) ==
            [step |-> step, auto |-> auto, rerun |-> rerun, shown |-> shown,
             slider_default |-> step0, slider_value |-> pos]
    IN IF ev.kind = "step" /\ sb.rerun
       THEN Out(sb.step, sy.auto, TRUE, toggle_shown)
       ELSE IF ev.kind = "reset"
       THEN Out(0, FALSE, TRUE, toggle_shown)
       ELSE IF ev.kind = "toggle" /\ toggle_shown = sy.auto
       THEN Out(tb.step, tb.auto, tb.rerun, sy.auto)
       ELSE Out(ap.step, ap.auto, ap.rerun, sy.auto)

\* the state the run leaves
Ran(ev, out) ==
    /\ last_event' = ev
    /\ in_session' = TRUE
    /\ animation_step' = out.step
    /\ auto_play' = out.auto
    /\ rerun_pending' = out.rerun
    /\ toggle_shown' = out.shown
    /\ slider_default' = out.slider_default
    /\ slider_value' = out.slider_value
    /\ UNCHANGED <<max_cascade_order, hands_off, dispatchVars, pageVars, generatorVars, chatVars, cortexVars>>

\* the page is loaded, or st.experimental_rerun() was called: the script runs
Rerun ==
    /\ ~in_session \/ rerun_pending
    /\ Ran(Event("none", 0), RunScript(Event("none", 0)))

\* the user moves the slider or presses a button: the script runs
UserRun ==
    /\ in_session
    /\ ~hands_off
    /\ \E ev \in UserEvents :
        /\ ev.kind = "slider" => ev.v # slider_value
        /\ Ran(ev, RunScript(ev))

\* from now on the user leaves the page alone
UserLeaves ==
    /\ ~hands_off
    /\ hands_off' = TRUE
    /\ UNCHANGED <<max_cascade_order, in_session, animation_step, auto_play,
                   slider_default, slider_value, toggle_shown, rerun_pending,
                   last_event, dispatchVars, pageVars, generatorVars, chatVars, cortexVars>>

\* the page is opened with a cascade path whose largest CASCADE_ORDER is
\* max_cascade_order; the session state has no animation keys yet
AnimationInit ==
    /\ max_cascade_order \in 1..MaxCascade
    /\ in_session = FALSE
    /\ animation_step = 0
    /\ auto_play = FALSE
    /\ slider_default = -1
    /\ slider_value = 0
    /\ toggle_shown = FALSE
    /\ rerun_pending = FALSE
    /\ last_event = Event("none", 0)
    /\ hands_off = FALSE
    /\ NoCall
    /\ NoPage
    /\ NoGenerator
    /\ NoChat
    /\ NoCortex

AnimationNext == Rerun \/ UserRun \/ UserLeaves

AnimationSpec == AnimationInit /\ [][AnimationNext]_vars

\* a requested rerun does run
FairAnimationSpec == AnimationSpec /\ WF_vars(Rerun)

\* C19: for a fixed max_cascade_order, after any sequence of Step, Reset,
\* Auto-Play toggle, auto-play tick and slider change, animation_step is
\* within 0..max_cascade_order.
C19_StepWithinRange ==
    /\ 0 <= animation_step
    /\ animation_step <= max_cascade_order
    /\ in_session => (0 <= slider_value /\ slider_value <= max_cascade_order)

C19_Witness ==
    /\ in_session
    /\ max_cascade_order = MaxCascade
    /\ animation_step = max_cascade_order
    /\ slider_default = max_cascade_order - 1
    /\ ~auto_play
    /\ ~rerun_pending

\* C20: while the user leaves the page alone, each rerun with auto_play on
\* advances animation_step by exactly one as long as it is below
\* max_cascade_order and turns auto_play off, leaving the step, when it is at
\* max_cascade_order; auto_play then stays off; and auto-play that is on
\* always comes to that stop, with the step at max_cascade_order.
C20_AutoPlayRunsToEnd ==
    /\ [][(hands_off /\ in_session) =>
            IF auto_play
            THEN IF animation_step < max_cascade_order
                 THEN animation_step' = animation_step + 1 /\ auto_play'
                 ELSE animation_step' = animation_step /\ ~auto_play'
            ELSE animation_step' = animation_step /\ ~auto_play']_vars
    /\ (hands_off /\ auto_play) ~>
            (~auto_play /\ animation_step = max_cascade_order)
    /\ [][(hands_off /\ ~auto_play) => ~auto_play']_vars

C20_Witness ==
    /\ hands_off
    /\ auto_play
    /\ max_cascade_order = MaxCascade
    /\ animation_step = max_cascade_order
    /\ toggle_shown
    /\ rerun_pending

\* C21: a run made by the user moving the slider to a value other than the
\* stored animation_step leaves animation_step at that value and auto_play
\* off: a manual slider change always stops auto-play.
C21_SliderChangeStopsAutoPlay ==
    [][(/\ last_event'.kind = "slider"
        /\ hands_off' = hands_off
        /\ last_event'.v # animation_step)
            => (animation_step' = last_event'.v /\ ~auto_play')]_vars

(* ------ the chat of pages/6_Ask_GridGuard.py and 4_Take_Action.py ------ *)

ChatPages == {"6_Ask_GridGuard", "4_Take_Action"}

ChatModes == {"agent", "analyst", "search"}

\* suggested questions on the buttons, and texts the user types
Suggested ==
    {"What caused the cascade in the winter storm scenario?",
     "When do I need to file DOE Form OE-417?"}

Typed == {"", "Which node failed first?"}

NoRequest == [kind |-> "none", arg |-> ""]

\* the widget events: a new text in the text input, Send, a suggested
\* question button, a mode button (Ask GridGuard only), Clear Conversation
Requests(p) ==
    {[kind |-> "type", arg |-> t] : t \in Typed}
        \cup {[kind |-> "send", arg |-> ""], [kind |-> "clear", arg |-> ""]}
        \cup {[kind |-> "suggest", arg |-> q] : q \in Suggested}
        \cup (IF p = "6_Ask_GridGuard"
              THEN {[kind |-> "mode", arg |-> m] : m \in ChatModes} ELSE {})

\* user_input = user_input_text if send_clicked and user_input_text else None
TypedInput(send_clicked, text) ==
    IF send_clicked /\ Truthy(text) THEN text ELSE None

\* pending-question handling that leaves pending_question set
TakePending_NoClear(pending, typed) ==
    IF Truthy(pending) THEN [user_input |-> pending, pending |-> pending, from |-> "pending"]
    ELSE [user_input |-> typed, pending |-> pending, from |-> "typed"]

\* 6_Ask_GridGuard.py lines 224-226, 4_Take_Action.py lines 199-201
TakePending(pending, typed) ==
    IF Truthy(pending) THEN [user_input |-> pending, pending |-> None, from |-> "pending"]
    ELSE [user_input |-> typed, pending |-> pending, from |-> "typed"]

Message(role, content) == [role |-> role, content |-> content]

\* what the backend call of the try block comes to: the assistant message is
\* appended for a success result, for a success=False / empty result, or in
\* the except branch; st_error tells that query_cortex_search showed
\* st.error on the way (cortex.py line 274), which the analyst never does
\* and which in search mode means no results
Outcomes(mode) ==
    {o \in [reply : {"success", "failure", "exception"}, st_error : BOOLEAN] :
        /\ mode = "analyst" => ~o.st_error
        /\ (mode = "search" /\ o.st_error) => o.reply = "failure"}

\* the user clicks or types; the event waits for the script runner
UserActs ==
    /\ chat_page \in ChatPages
    /\ request = NoRequest
    /\ acts < MaxActs
    /\ \E ev \in Requests(chat_page) :
        /\ ev.kind = "type" => Str(ev.arg) # input_text
        /\ request' = ev
    /\ acts' = acts + 1
    /\ UNCHANGED <<chat_page, chat_mode, chat_history, pending_question, input_text,
                   chat_pc, user_input, chat_rerun, taken,
                   dispatchVars, pageVars, generatorVars, animationVars, cortexVars>>

\* the script runs from its top for the waiting event or the requested
\* rerun, up to the end of the script or to the entry of the spinner:
\* 6_Ask_GridGuard.py lines 80-235 and 327-329, 4_Take_Action.py lines
\* 135-209 and 242-245
StartRun ==
    /\ chat_pc = "idle"
    /\ request # NoRequest \/ chat_rerun
    /\ request' = NoRequest
    /\ UNCHANGED <<chat_page, acts, dispatchVars, pageVars, generatorVars, animationVars, cortexVars>>
    /\ IF request.kind = "mode"
       THEN /\ chat_mode' = request.arg
            /\ chat_rerun' = TRUE
            /\ UNCHANGED <<chat_history, pending_question, input_text, chat_pc,
                           user_input, taken>>
       ELSE IF request.kind = "suggest"
       THEN /\ pending_question' = Str(request.arg)
            /\ chat_rerun' = TRUE
            /\ UNCHANGED <<chat_mode, chat_history, input_text, chat_pc, user_input,
                           taken>>
       ELSE LET text == IF request.kind = "type" THEN Str(request.arg) ELSE input_text
                typed == TypedInput(request.kind = "send", text)
                tp == TakePending(pending_question, typed)
            IN /\ input_text' = text
               /\ pending_question' = tp.pending
               /\ chat_mode' = chat_mode
               /\ IF Truthy(tp.user_input)
                  THEN /\ chat_history' = Append(chat_history,
                                                 Message("user", tp.user_input))
                       /\ user_input' = tp.user_input
                       /\ chat_pc' = "spinner"
                       /\ chat_rerun' = FALSE
                       /\ taken' = Append(taken, [from |-> tp.from,
                                                  typed |-> Truthy(typed),
                                                  at |-> Len(chat_history) + 1])
                  ELSE /\ user_input' = None
                       /\ chat_pc' = "idle"
                       /\ taken' = taken
                       /\ IF /\ request.kind = "clear"
                             /\ chat_page = "4_Take_Action" => chat_history # << >>
                          THEN chat_history' = << >> /\ chat_rerun' = TRUE
                          ELSE chat_history' = chat_history /\ chat_rerun' = FALSE

\* `with st.spinner(...)`: entering it sends an element to the browser, and
\* the script runner stops the script there when a widget event is waiting
EnterSpinner ==
    /\ chat_pc = "spinner"
    /\ chat_pc' = IF request # NoRequest THEN "idle" ELSE "backend"
    /\ user_input' = IF request # NoRequest THEN None ELSE user_input
    /\ UNCHANGED <<chat_page, chat_mode, chat_history, pending_question, input_text,
                   chat_rerun, request, taken, acts,
                   dispatchVars, pageVars, generatorVars, animationVars, cortexVars>>

\* the try block and the end of the run: 6_Ask_GridGuard.py lines 236-321,
\* 4_Take_Action.py lines 211-239.  st.error inside the backend and the exit
\* of the spinner are places where a waiting widget event stops the script;
\* otherwise the run ends with st.experimental_rerun()
Backend ==
    /\ chat_pc = "backend"
    /\ \E o \in Outcomes(chat_mode) :
        IF o.st_error /\ request # NoRequest
        THEN /\ chat_history' = chat_history
             /\ chat_rerun' = FALSE
        ELSE /\ chat_history' = Append(chat_history, Message("assistant", Str(o.reply)))
             /\ chat_rerun' = (request = NoRequest)
    /\ chat_pc' = "idle"
    /\ user_input' = None
    /\ UNCHANGED <<chat_page, chat_mode, pending_question, input_text, request, taken,
                   acts, dispatchVars, pageVars, generatorVars, animationVars, cortexVars>>

\* a chat page was opened: the session state holds an empty history and, on
\* Ask GridGuard, chat_mode 'agent'
ChatInit ==
    /\ chat_page \in ChatPages
    /\ chat_mode = "agent"
    /\ chat_history = << >>
    /\ pending_question = None
    /\ input_text = Str("")
    /\ chat_pc = "idle"
    /\ user_input = None
    /\ chat_rerun = FALSE
    /\ request = NoRequest
    /\ taken = << >>
    /\ acts = 0
    /\ NoCall
    /\ NoPage
    /\ NoGenerator
    /\ NoAnimation
    /\ NoCortex

ChatNext == UserActs \/ StartRun \/ EnterSpinner \/ Backend

ChatSpec == ChatInit /\ [][ChatNext]_vars

\* the history is user, assistant, user, assistant, ...
Alternates(h) ==
    /\ Len(h) % 2 = 0
    /\ \A i \in 1..Len(h) : h[i].role = IF i % 2 = 1 THEN "user" ELSE "assistant"

\* C22: whenever no run is in progress the chat history alternates user,
\* assistant and has even length: every run that handles an input appends
\* the user message and exactly one assistant message.
C22_HistoryAlternates ==
    chat_pc = "idle" => Alternates(chat_history)

\* the run of this step reads the stored question and handles it
HandledNow ==
    /\ pending_question' = None
    /\ user_input' = pending_question
    /\ chat_pc' = "spinner"

\* C23 as stated: a stored suggested question leaves pending_question only
\* by being handled by a run, so every stored question is handled by
\* exactly one run.
C23_HandledByExactlyOneRun ==
    [][(Truthy(pending_question) /\ pending_question' # pending_question)
            => HandledNow]_vars

\* C23: a stored suggested question is handled by at most one run: it leaves
\* pending_question either by being read by a run, which clears it before
\* the backend is called and takes it in preference to typed input, or by
\* being replaced by another suggested question before any run read it.
C23_HandledByAtMostOneRun ==
    /\ []((/\ chat_pc \in {"spinner", "backend"}
           /\ taken # << >>
           /\ taken[Len(taken)].from = "pending")
              => pending_question = None)
    /\ [][(Truthy(pending_question) /\ pending_question' # pending_question)
              => (HandledNow \/ (Truthy(pending_question') /\ chat_pc' = "idle"))]_vars
    /\ [][(Truthy(pending_question) /\ chat_pc = "idle" /\ chat_pc' = "spinner")
              => HandledNow]_vars

\* a run took the stored question although Send was clicked with a text
C23_Witness ==
    /\ chat_pc = "backend"
    /\ taken # << >>
    /\ taken[Len(taken)] = [from |-> "pending", typed |-> TRUE, at |-> Len(chat_history)]
    /\ pending_question = None

(* ------------------------- utils/cortex.py ------------------------- *)

UpperCase ==
    <<"A", "B", "C", "D", "E", "F", "G", "H", "I", "J", "K", "L", "M", "N", "O", "P",
      "Q", "R", "S", "T", "U", "V", "W", "X", "Y", "Z">>

LowerCase ==
    <<"a", "b", "c", "d", "e", "f", "g", "h", "i", "j", "k", "l", "m", "n", "o", "p",
      "q", "r", "s", "t", "u", "v", "w", "x", "y", "z">>

\* str.lower() on one character
LowerChar(c) ==
    IF \E i \in 1..Len(UpperCase) : UpperCase[i] = c
    THEN LowerCase[CHOOSE i \in 1..Len(UpperCase) : UpperCase[i] = c]
    ELSE c

\* question.lower()
Lower(s) == [i \in 1..Len(s) |-> LowerChar(s[i])]

\* `word in text` on strings: word occurs as a substring
Contains(text, word) ==
    \E i \in 0..(Len(text) - Len(word)) :
        \A j \in 1..Len(word) : text[i + j] = word[j]

\* the keyword list of is_compliance
ComplianceWords ==
    { <<"r", "e", "g", "u", "l", "a", "t", "i", "o", "n">>,
      <<"c", "o", "m", "p", "l", "i", "a", "n", "c", "e">>,
      <<"n", "e", "r", "c">>,
      <<"f", "o", "r", "m">>,
      <<"r", "e", "p", "o", "r", "t">>,
      <<"f", "i", "l", "i", "n", "g">>,
      <<"r", "e", "q", "u", "i", "r", "e", "m", "e", "n", "t">> }

\* the keyword list of is_data
DataWords ==
    { <<"f", "a", "i", "l", "u", "r", "e">>,
      <<"c", "a", "s", "c", "a", "d", "e">>,
      <<"p", "a", "t", "i", "e", "n", "t", " ", "z", "e", "r", "o">>,
      <<"n", "o", "d", "e">>,
      <<"l", "o", "a", "d">>,
      <<"c", "o", "s", "t">>,
      <<"c", "u", "s", "t", "o", "m", "e", "r">>,
      <<"s", "c", "e", "n", "a", "r", "i", "o">> }

\* questions asked: suggested ones of the pages, and typed ones whose words
\* hold a keyword inside another word or in capitals
Questions ==
    { <<"W", "h", "a", "t", " ", "c", "a", "u", "s", "e", "d", " ", "t", "h", "e", " ",
        "c", "a", "s", "c", "a", "d", "e", " ", "i", "n", " ", "t", "h", "e", " ", "w",
        "i", "n", "t", "e", "r", " ", "s", "t", "o", "r", "m", " ", "s", "c", "e", "n",
        "a", "r", "i", "o", "?">>,
      <<"W", "h", "e", "n", " ", "d", "o", " ", "I", " ", "n", "e", "e", "d", " ", "t",
        "o", " ", "f", "i", "l", "e", " ", "D", "O", "E", " ", "F", "o", "r", "m", " ",
        "O", "E", "-", "4", "1", "7", "?">>,
      <<"W", "h", "i", "c", "h", " ", "r", "e", "g", "i", "o", "n", " ", "w", "a", "s",
        " ", "m", "o", "s", "t", " ", "i", "m", "p", "a", "c", "t", "e", "d", " ", "a",
        "n", "d", " ", "w", "h", "a", "t", " ", "s", "h", "o", "u", "l", "d", " ", "I",
        " ", "d", "o", " ", "a", "b", "o", "u", "t", " ", "i", "t", "?">>,
      <<"W", "h", "a", "t", " ", "a", "r", "e", " ", "t", "h", "e", " ", "N", "E", "R",
        "C", " ", "r", "e", "p", "o", "r", "t", "i", "n", "g", " ", "r", "e", "q", "u",
        "i", "r", "e", "m", "e", "n", "t", "s", " ", "f", "o", "r", " ", "c", "a", "s",
        "c", "a", "d", "e", " ", "f", "a", "i", "l", "u", "r", "e", "s", "?">>,
      <<"I", "s", " ", "t", "h", "e", " ", "t", "r", "a", "n", "s", "f", "o", "r", "m",
        "e", "r", " ", "o", "k", "?">>,
      <<"D", "o", "w", "n", "l", "o", "a", "d", " ", "i", "t">>,
      <<"W", "h", "o", " ", "i", "s", " ", "P", "a", "t", "i", "e", "n", "t", " ", "Z",
        "e", "r", "o", "?">> }

\* any(word in question_lower for word in [...])
AnyWordIn(words, question) ==
    \E word \in words : Contains(Lower(question), word)

is_compliance(question) == AnyWordIn(ComplianceWords, question)

is_data(question) == AnyWordIn(DataWords, question)

\* the search branch taken for compliance questions only
ConsultSearch_OnlyCompliance(compliance, data) == compliance

\* `if is_compliance or not is_data:` (line 186)
ConsultSearch(compliance, data) == compliance \/ ~data

\* `if is_data or not is_compliance:` (line 196)
ConsultAnalyst(compliance, data) == data \/ ~compliance

\* how a function call ends
Returns(value) == [kind |-> "return", value |-> value]

Raise(msg) == [kind |-> "raise", msg |-> msg]

\* the script runner stopped the script inside a Streamlit command
Stopped == [kind |-> "stopped"]

\* str(e) of the exceptions the session raises
Messages == {"", "SQL compilation error"}

\* the lines that open a markdown code block; "[fence]" stands for the
\* three backquotes
FenceLines == {"[fence]", "[fence]sql"}

\* texts of the completion, as their lines
SqlTexts ==
    { <<"SELECT COUNT(NODE_ID) FROM SIMULATION_RESULTS">>,
      <<"", "SELECT COUNT(NODE_ID) FROM SIMULATION_RESULTS", "">>,
      <<"[fence]sql", "SELECT COUNT(NODE_ID) FROM SIMULATION_RESULTS", "[fence]">>,
      <<"[fence]sql", "SELECT COUNT(NODE_ID) FROM SIMULATION_RESULTS">>,
      <<"[fence]">>,
      << >> }

RECURSIVE StripLeft(_)
StripLeft(lines) ==
    IF lines # << >> /\ Head(lines) = "" THEN StripLeft(Tail(lines)) ELSE lines

RECURSIVE StripRight(_)
StripRight(lines) ==
    IF lines # << >> /\ lines[Len(lines)] = ""
    THEN StripRight(SubSeq(lines, 1, Len(lines) - 1))
    ELSE lines

\* str.strip(), on a text held as its lines
Strip(lines) == StripRight(StripLeft(lines))

\* lines 77-80: drop the markdown code block around the SQL
CleanSql(generated_sql) ==
    IF generated_sql # << >> /\ generated_sql[1] \in FenceLines
    THEN IF generated_sql[Len(generated_sql)] = "[fence]"
         THEN SubSeq(generated_sql, 2, Len(generated_sql) - 1)
         ELSE SubSeq(generated_sql, 2, Len(generated_sql))
    ELSE generated_sql

\* what the three session.sql calls of query_cortex_analyst do: the
\* completion that writes the SQL raises, or returns no row, or a row holding
\* NULL or a text; running the SQL raises or gives a frame of some rows;
\* the completion that explains raises, or returns no row, or NULL or a text
AnalystEnvs ==
    [complete : {Raise(m) : m \in Messages}
                    \cup {Returns(<< >>), Returns(<<None>>)}
                    \cup {Returns(<<Str(t)>>) : t \in SqlTexts},
     to_pandas : {Raise(m) : m \in Messages} \cup {Returns(n) : n \in 0..1},
     explain : {Raise(m) : m \in Messages}
                   \cup {Returns(<< >>), Returns(<<None>>), Returns(<<Str("The count is 1.")>>)}]

AnalystDict(success, generated_sql, frame, explanation, error) ==
    [success |-> success, sql |-> generated_sql, results |-> frame,
     explanation |-> explanation, error |-> error]

\* f"{prefix}{str(e)}"
Format(prefix, msg) == [kind |-> "str", prefix |-> prefix, s |-> msg]

\* the inner try of query_cortex_analyst (lines 83-108)
ExecuteGenerated(generated_sql, env) ==
    IF generated_sql = << >>
    THEN Raise("SQL compilation error")
    ELSE IF env.to_pandas.kind = "raise" THEN env.to_pandas
    ELSE IF env.explain.kind = "raise" THEN env.explain
    ELSE IF env.explain.value = << >> THEN Raise("list index out of range")
    ELSE Returns(AnalystDict(TRUE, Str(generated_sql),
                            DataFrame(generated_sql, env.to_pandas.value),
                            env.explain.value[1], None))

\* the body of the outer try of query_cortex_analyst (lines 32-116)
AnalystBody(env) ==
    IF env.complete.kind = "raise" THEN env.complete
    ELSE IF env.complete.value = << >>
    THEN Returns(AnalystDict(FALSE, None, None, None, Str("No response from Cortex")))
    ELSE IF env.complete.value[1] = None
    THEN Raise("NoneType object has no attribute strip")
    ELSE LET generated_sql == CleanSql(Strip(env.complete.value[1].s))
             r == ExecuteGenerated(generated_sql, env)
         IN IF r.kind = "raise"
            THEN Returns(AnalystDict(FALSE, Str(generated_sql), None, None,
                                    Format("SQL execution error: ", r.msg)))
            ELSE r

\* query_cortex_analyst without the outer except
query_cortex_analyst_NoCatch(env) == AnalystBody(env)

\* query_cortex_analyst (lines 16-125)
query_cortex_analyst(env) ==
    LET r == AnalystBody(env)
    IN IF r.kind = "raise"
       THEN Returns(AnalystDict(FALSE, None, None, None, Str(r.msg)))
       ELSE r

\* the rows of COMPLIANCE_DOCS the search service returns
SearchRows ==
    << [REGULATION_CODE |-> "NERC-CIP-008-6",
        CONTENT |-> [text |-> "Each Responsible Entity shall document", len |-> 520]],
       [REGULATION_CODE |-> "NERC-EOP-004-4",
        CONTENT |-> [text |-> "Form OE-417 must be filed", len |-> 120]] >>

\* the characters of CONTENT that go into the context
ContextChars == 300

\* text[:n]
Slice(text, n) ==
    [text |-> text.text, len |-> IF text.len < n THEN text.len ELSE n]

\* what the session.sql call of query_cortex_search does, and whether a
\* widget event is waiting for the script runner when st.error is called
SearchEnvs ==
    [sql : {Raise(m) : m \in Messages} \cup {Returns(n) : n \in 0..Len(SearchRows)},
     waiting : BOOLEAN]

\* query_cortex_search (lines 242-275)
query_cortex_search(env) ==
    IF env.sql.kind = "raise"
    THEN IF env.waiting THEN Stopped ELSE Returns(<< >>)
    ELSE Returns(SubSeq(SearchRows, 1, env.sql.value))

\* lines 188-193
ComplianceResponse(search_results) ==
    [source |-> "compliance",
     result |-> [i \in 1..Len(search_results) |->
                    <<search_results[i].REGULATION_CODE,
                      Slice(search_results[i].CONTENT, ContextChars)>>],
     rows |-> search_results]

\* the analyst result appended whatever its success
DataResponses_Always(responses, analyst_result) ==
    Append(responses, [source |-> "data", result |-> analyst_result, rows |-> None])

\* lines 198-199
DataResponses(responses, analyst_result) ==
    IF analyst_result.success
    THEN Append(responses, [source |-> "data", result |-> analyst_result, rows |-> None])
    ELSE responses

\* what the final session.sql(...).collect()[0][0] does
FinalEnvs ==
    {Raise(m) : m \in Messages}
        \cup {Returns(<< >>), Returns(<<None>>), Returns(<<Str("Node SUB-HOU-001 failed first.")>>)}

AgentDict(success, response, sources, error) ==
    [success |-> success, response |-> response, sources |-> sources, error |-> error]

\* the except of query_cortex_agent (lines 233-239)
AgentExcept(r) ==
    IF r.kind = "raise"
    THEN Returns(AgentDict(FALSE, None, << >>, Str(r.msg)))
    ELSE r

\* lines 211-231 inside the try
AgentFinish(responses, env) ==
    AgentExcept(IF env.kind = "raise" THEN env
                ELSE IF env.value = << >> THEN Raise("list index out of range")
                ELSE Returns(AgentDict(TRUE, env.value[1], responses, None)))

SubQuery(source, ok) == [source |-> source, ok |-> ok]

\* a page calls query_cortex_analyst(session, question)
AnalystCall ==
    /\ cx_fn = "analyst"
    /\ cx_pc = "start"
    /\ \E env \in AnalystEnvs :
        LET r == query_cortex_analyst(env)
        IN /\ cx_result' = r
           /\ cx_calls' = <<SubQuery("analyst", r.kind = "return" /\ r.value.success)>>
    /\ cx_pc' = "done"
    /\ UNCHANGED <<cx_fn, cx_question, cx_responses,
                   dispatchVars, pageVars, generatorVars, animationVars, chatVars>>

\* query_cortex_agent up to the end of the search branch (lines 151-193)
AgentSearch ==
    /\ cx_fn = "agent"
    /\ cx_pc = "start"
    /\ IF ConsultSearch(is_compliance(cx_question), is_data(cx_question))
       THEN \E env \in SearchEnvs :
               LET r == query_cortex_search(env)
               IN /\ cx_calls' = Append(cx_calls, SubQuery("search", env.sql.kind = "return"))
                  /\ IF r.kind = "stopped"
                     THEN /\ cx_result' = r
                          /\ cx_pc' = "done"
                          /\ cx_responses' = cx_responses
                     ELSE /\ cx_result' = cx_result
                          /\ cx_pc' = "analyst"
                          /\ cx_responses' =
                                IF r.value # << >>
                                THEN Append(cx_responses, ComplianceResponse(r.value))
                                ELSE cx_responses
       ELSE /\ cx_pc' = "analyst"
            /\ UNCHANGED <<cx_calls, cx_responses, cx_result>>
    /\ UNCHANGED <<cx_fn, cx_question,
                   dispatchVars, pageVars, generatorVars, animationVars, chatVars>>

\* the analyst branch of query_cortex_agent (lines 196-199)
AgentAnalyst ==
    /\ cx_fn = "agent"
    /\ cx_pc = "analyst"
    /\ IF ConsultAnalyst(is_compliance(cx_question), is_data(cx_question))
       THEN \E env \in AnalystEnvs :
               LET r == query_cortex_analyst(env)
               IN IF r.kind = "raise"
                  THEN /\ cx_calls' = Append(cx_calls, SubQuery("analyst", FALSE))
                       /\ cx_responses' = cx_responses
                       /\ cx_result' = AgentExcept(r)
                       /\ cx_pc' = "done"
                  ELSE /\ cx_calls' = Append(cx_calls, SubQuery("analyst", r.value.success))
                       /\ cx_responses' = DataResponses(cx_responses, r.value)
                       /\ cx_result' = cx_result
                       /\ cx_pc' = "final"
       ELSE /\ cx_pc' = "final"
            /\ UNCHANGED <<cx_calls, cx_responses, cx_result>>
    /\ UNCHANGED <<cx_fn, cx_question,
                   dispatchVars, pageVars, generatorVars, animationVars, chatVars>>

\* the final completion and the return (lines 201-239); combined_context
\* goes into the text of the completion only
AgentFinal ==
    /\ cx_fn = "agent"
    /\ cx_pc = "final"
    /\ \E env \in FinalEnvs :
        /\ cx_result' = AgentFinish(cx_responses, env)
        /\ cx_calls' = Append(cx_calls, SubQuery("final", env.kind = "return" /\ env.value # << >>))
    /\ cx_pc' = "done"
    /\ UNCHANGED <<cx_fn, cx_question, cx_responses,
                   dispatchVars, pageVars, generatorVars, animationVars, chatVars>>

\* a page calls one of the two functions with a question
CortexInit ==
    /\ cx_fn \in {"analyst", "agent"}
    /\ cx_question \in Questions
    /\ cx_pc = "start"
    /\ cx_calls = << >>
    /\ cx_responses = << >>
    /\ cx_result = None
    /\ NoCall
    /\ NoPage
    /\ NoGenerator
    /\ NoAnimation
    /\ NoChat

CortexNext == AnalystCall \/ AgentSearch \/ AgentAnalyst \/ AgentFinal

CortexSpec == CortexInit /\ [][CortexNext]_vars

\* the sub-query was made in this call
Consulted(source) ==
    \E i \in 1..Len(cx_calls) : cx_calls[i].source = source

\* the call of query_cortex_agent is past its two branches
BranchesDone ==
    /\ cx_fn = "agent"
    /\ cx_pc = "final" \/ (cx_pc = "done" /\ cx_result.kind = "return")

C25_AnalystNeverRaises ==
    (cx_fn = "analyst" /\ cx_pc = "done") =>
        /\ cx_result.kind = "return"
        /\ cx_result.value.success =>
              /\ cx_result.value.error = None
              /\ cx_result.value.sql # None
              /\ cx_result.value.results # None
        /\ ~cx_result.value.success =>
              /\ cx_result.value.results = None
              /\ cx_result.value.explanation = None
              /\ cx_result.value.error # None

\* the first completion raised with an empty message: the outer except
\* returned success=False with the error '' and no sql
C25_Witness ==
    /\ cx_fn = "analyst"
    /\ cx_pc = "done"
    /\ cx_result.kind = "return"
    /\ ~cx_result.value.success
    /\ cx_result.value.sql = None
    /\ cx_result.value.error = Str("")

\* the sub-query was made in this call and came back with what was asked
Succeeded(source) ==
    \E i \in 1..Len(cx_calls) : cx_calls[i] = SubQuery(source, TRUE)

\* the sub-query was made in this call and failed
Failed(source) ==
    \E i \in 1..Len(cx_calls) : cx_calls[i] = SubQuery(source, FALSE)

InSources(sources, tag) ==
    \E i \in 1..Len(sources) : sources[i].source = tag

====
